---- MODULE Spec2Model ----
(***************************************************************************)
(* Model of i3stat's bar rendering (src/src/bar.rs), the InterfaceFilter   *)
(* text format (src/src/bar_items/nic.rs) and the Cpu / Nic item loops     *)
(* (src/src/bar_items/cpu.rs, src/src/bar_items/nic.rs).                   *)
(***************************************************************************)
EXTENDS Integers, Sequences, FiniteSets, TLC

\* ------------------------------------------------------------------ bounds
NumSlots == 3
MaxBands == 3

\* ------------------------------------------------------- program constants
U8Max == 255

\* ---------------------------------------------------------------- options
None == <<>>
Some(v) == <<v>>
IsSome(o) == o # <<>>
Unwrap(o) == o[1]
unwrap_or(o, d) == IF o = <<>> THEN d ELSE o[1]

\* ----------------------------------------------------------------- colours
rgb(r, g, b) == [r |-> r, g |-> g, b |-> b]

HexDigits == <<"0", "1", "2", "3", "4", "5", "6", "7",
               "8", "9", "A", "B", "C", "D", "E", "F">>

HexByte(n) == <<HexDigits[(n \div 16) + 1], HexDigits[(n % 16) + 1]>>

\* HexColor's Display: "#RRGGBB"
color_to_string(c) == <<"#">> \o HexByte(c.r) \o HexByte(c.g) \o HexByte(c.b)

abs_diff(a, b) == IF a >= b THEN a - b ELSE b - a

\* u8 addition that wraps instead of saturating
wrapping_add(a, b) == (a + b) % (U8Max + 1)

saturating_add(a, b) == IF a + b > U8Max THEN U8Max ELSE a + b

\* the closure returned by make_color_adjuster is its captured (r, g, b)
make_color_adjuster(bg, fg) ==
    [r |-> abs_diff(fg.r, bg.r), g |-> abs_diff(fg.g, bg.g), b |-> abs_diff(fg.b, bg.b)]

adjuster_call(adj, c) ==
    rgb(saturating_add(adj.r, c.r), saturating_add(adj.g, c.g), saturating_add(adj.b, c.b))

\* OnceCell::get_or_init: the cell after the call
get_or_init(cell, v) == IF cell = None THEN Some(v) ELSE cell

\* ------------------------------------------------------------------ strings
RECURSIVE usize_to_string(_)
usize_to_string(n) ==
    IF n < 10 THEN <<HexDigits[n + 1]>>
    ELSE usize_to_string(n \div 10) \o <<HexDigits[(n % 10) + 1]>>

StartsWith(s, pat) ==
    /\ Len(pat) <= Len(s)
    /\ SubSeq(s, 1, Len(pat)) = pat

\* str::replace: every non-overlapping match, left to right
RECURSIVE str_replace(_, _, _)
str_replace(s, pat, rep) ==
    IF s = <<>> THEN <<>>
    ELSE IF pat # <<>> /\ StartsWith(s, pat)
         THEN rep \o str_replace(SubSeq(s, Len(pat) + 1, Len(s)), pat, rep)
         ELSE <<Head(s)>> \o str_replace(Tail(s), pat, rep)

\* -------------------------------------------------------------------- items
NoExtra == [powerline_sep |-> None, urgent |-> None]

I3Item_new(text) ==
    [full_text |-> text, color |-> None, background_color |-> None,
     urgent |-> None, separator |-> None, separator_block_width_px |-> None,
     markup |-> "none", instance |-> None, extra |-> NoExtra]

I3Item_empty == I3Item_new(<<>>)

is_empty(item) == item.full_text = <<>>

with_data(item, key, val) ==
    [item EXCEPT !.extra = IF key = "urgent"
                           THEN [item.extra EXCEPT !.urgent = Some(val)]
                           ELSE [item.extra EXCEPT !.powerline_sep = Some(val)]]

\* ------------------------------------------------------------------- themes
Red == rgb(255, 0, 0)
Dim == rgb(160, 160, 160)
DarkBg == rgb(16, 32, 48)
LightBg == rgb(240, 240, 240)
OtherColor == rgb(0, 200, 0)
OwnBg == rgb(0, 0, 128)

Band(k) ==
    [fg |-> rgb((k * 16) % 256, (k * 16) % 256, (k * 16) % 256),
     bg |-> rgb((k * 80) % 256, (k * 80) % 256, (k * 80) % 256)]

MkTheme(bg, enable, len) ==
    [bg |-> bg, dim |-> Dim, red |-> Red, powerline_enable |-> enable,
     powerline |-> [k \in 1..len |-> Band(k)],
     powerline_separator |-> <<"|">>]

Themes ==
    {MkTheme(bg, TRUE, len) : bg \in {DarkBg, LightBg}, len \in 1..MaxBands}
      \cup {MkTheme(DarkBg, FALSE, 1)}

to_span(sep) == <<"<span>">> \o sep \o <<"</span>">>

\* the items an item task may publish
ItemPlain == I3Item_new(<<"A">>)
ItemUrgent == [I3Item_new(<<"B">>) EXCEPT !.urgent = Some(TRUE)]
ItemOwnBg ==
    [I3Item_new(<<"C">>) EXCEPT !.background_color = Some(OwnBg),
                                !.color = Some(OtherColor), !.urgent = Some(FALSE)]
ItemDim ==
    [I3Item_new(<<"D">> \o color_to_string(Dim)) EXCEPT !.color = Some(Dim)]
ItemUrgentDim ==
    [I3Item_new(<<"E">>) EXCEPT !.color = Some(Dim), !.urgent = Some(TRUE)]

ItemVals == {ItemPlain, ItemUrgent, ItemOwnBg, ItemDim, ItemUrgentDim, I3Item_empty}

\* --------------------------------------------------------------------- state
VARIABLES
    items,         \* Bar.items, indexed 0..n-1
    dim_adjuster,  \* Bar.dim_adjuster: the OnceCell, None or Some(captured deltas)
    adjuster_ref,  \* history: the (bg, fg) make_color_adjuster was called with
    result,        \* what the latest to_json / to_value call on the unchanged bar returned
    flt,           \* an InterfaceFilter value
    flt_text,      \* Option: flt.to_string()
    flt_parsed,    \* Option: the Result of parsing flt_text
    flt_json,      \* Option: flt serialized
    flt_de,        \* Option: the Result of deserializing flt_json
    cpu_pc,        \* where Cpu::start stands
    cpu_item,      \* Option: the item Cpu published last
    cpu_update_err,\* Cpu's update_item has returned an error
    cpu_ret,       \* Option: what Cpu::start returned
    cpu_execs,     \* launches of the system monitor
    nic_cfg,       \* the Nic configuration: interval and filter
    nic_pc,        \* where Nic::start stands
    nic_idx,       \* Nic's idx
    interfaces,    \* Nic's filtered interface list of this iteration
    nic_item,      \* Option: the item Nic published last
    nic_update_err,\* Nic's update_item has returned an error
    nic_ret,       \* Option: what Nic::start returned
    nic_branches,  \* the select! in progress: which branches are still enabled
    nm_ended       \* the NetworkManager state stream has ended

bar_vars == <<items, dim_adjuster, adjuster_ref, result>>
flt_vars == <<flt, flt_text, flt_parsed, flt_json, flt_de>>
cpu_vars == <<cpu_pc, cpu_item, cpu_update_err, cpu_ret, cpu_execs>>
nic_vars == <<nic_cfg, nic_pc, nic_idx, interfaces, nic_item, nic_update_err,
              nic_ret, nic_branches, nm_ended>>
vars == <<bar_vars, flt_vars, cpu_vars, nic_vars>>

NoResult == [kind |-> "none", theme |-> MkTheme(DarkBg, FALSE, 1), out |-> <<>>]

\* Bar::new(item_count)
Bar_new(item_count) == [i \in 0..(item_count - 1) |-> I3Item_empty]

\* ------------------------------------------------------- create_powerline
\* self.items.len(); slots are indexed from 0 as in the Vec
items_len(its) == Cardinality(DOMAIN its)

visible_count(its) == Cardinality({i \in DOMAIN its : ~is_empty(its[i])})

\* a cursor that starts at the first band whatever the number of visible items
PowerlineStartLeft(powerline_len, visible_items) == powerline_len

PowerlineStart(powerline_len, visible_items) ==
    powerline_len - (visible_items % powerline_len)

\* a loop that forgets the `continue` of line 94
SkipNothing(item) == FALSE

SkipSlot(item) == is_empty(item)

\* theme.powerline[k % len] with Rust's 0-based index
BandAt(theme, k) == theme.powerline[(k % Len(theme.powerline)) + 1]

ItemBg(item, theme, this_color) ==
    IF unwrap_or(item.urgent, FALSE) THEN theme.red
    ELSE IF IsSome(item.background_color) THEN Unwrap(item.background_color)
    ELSE this_color.bg

\* lines 115-136
SepItem(its, i, theme, item_bg, prev_color) ==
    LET base == with_data(
            [I3Item_new(to_span(theme.powerline_separator)) EXCEPT
                !.instance = Some(usize_to_string(i)),
                !.separator = Some(FALSE),
                !.markup = "pango",
                !.separator_block_width_px = Some(0),
                !.color = Some(item_bg)],
            "powerline_sep", TRUE)
    IN  IF i > 0
        THEN LET prev_item == its[i - 1]
             IN  IF unwrap_or(prev_item.urgent, FALSE)
                 THEN [base EXCEPT !.background_color = Some(theme.red)]
                 ELSE [base EXCEPT !.background_color =
                          Some(IF IsSome(prev_item.background_color)
                               THEN Unwrap(prev_item.background_color)
                               ELSE prev_color.bg)]
        ELSE base

\* the value stored under the extra-data key "urgent" (line 166)
UrgentData(is_urgent) == TRUE

\* lines 146-167
ContentItem(item, theme, is_urgent, item_fg, item_bg, adjusted_dim) ==
    with_data(
        [item EXCEPT
            !.full_text = <<" ">> \o str_replace(item.full_text,
                                       color_to_string(theme.dim),
                                       color_to_string(adjusted_dim)) \o <<" ">>,
            !.separator = Some(FALSE),
            !.separator_block_width_px = Some(0),
            !.color = Some(IF is_urgent THEN item_fg
                           ELSE IF item.color = Some(theme.dim) THEN adjusted_dim
                           ELSE IF IsSome(item.color) THEN Unwrap(item.color)
                           ELSE item_fg),
            !.background_color = Some(item_bg),
            !.urgent = Some(FALSE)],
        "urgent", UrgentData(is_urgent))

\* the loop of lines 91-168; returns the bar and the OnceCell after the loop
RECURSIVE PowerlineLoop(_, _, _, _, _, _)
PowerlineLoop(its, theme, cell, i, powerline_idx, powerline_bar) ==
    IF i >= items_len(its)
    THEN [bar |-> powerline_bar, cell |-> cell]
    ELSE LET item == its[i]
         IN  IF SkipSlot(item)
             THEN PowerlineLoop(its, theme, cell, i + 1, powerline_idx, powerline_bar)
             ELSE LET prev_color == BandAt(theme, powerline_idx)
                      this_color == BandAt(theme, powerline_idx + 1)
                      is_urgent == unwrap_or(item.urgent, FALSE)
                      item_fg == IF is_urgent THEN theme.bg ELSE this_color.fg
                      item_bg == ItemBg(item, theme, this_color)
                      sep_item == SepItem(its, i, theme, item_bg, prev_color)
                      cell2 == get_or_init(cell, make_color_adjuster(theme.bg, theme.dim))
                      adjusted_dim == adjuster_call(Unwrap(cell2), item_bg)
                  IN  PowerlineLoop(its, theme, cell2, i + 1, powerline_idx + 1,
                          powerline_bar \o
                            <<sep_item,
                              ContentItem(item, theme, is_urgent, item_fg, item_bg,
                                          adjusted_dim)>>)

create_powerline(its, theme, cell) ==
    LET visible_items == visible_count(its)
        powerline_len == Len(theme.powerline)
    IN  PowerlineLoop(its, theme, cell, 0,
                      PowerlineStart(powerline_len, visible_items), <<>>)

\* serde's encoding of Vec<I3Item>: one entry per element, in order
RawItems(its) == [k \in 1..items_len(its) |-> its[k - 1]]

\* the body shared by to_json and to_value
Serialize(its, theme, cell) ==
    IF theme.powerline_enable
    THEN create_powerline(its, theme, cell)
    ELSE [bar |-> RawItems(its), cell |-> cell]

\* the arguments of the make_color_adjuster call that filled the cell (line 141)
RefAfter(ref, cell_before, cell_after, theme) ==
    IF cell_before = None /\ cell_after # None
    THEN Some([bg |-> theme.bg, fg |-> theme.dim])
    ELSE ref

\* ------------------------------------------------------------------ actions
BarInit ==
    /\ items = Bar_new(NumSlots)
    /\ dim_adjuster = None
    /\ adjuster_ref = None
    /\ result = NoResult

\* IndexMut: bar[i] = item, the item carrying its slot's instance
UpdateItem ==
    \E i \in 0..(NumSlots - 1), item \in ItemVals :
        /\ items' = [items EXCEPT ![i] = [item EXCEPT !.instance = Some(usize_to_string(i))]]
        /\ items' # items
        /\ result' = NoResult
        /\ UNCHANGED <<dim_adjuster, adjuster_ref, flt_vars, cpu_vars, nic_vars>>

to_json ==
    \E theme \in Themes :
        LET s == Serialize(items, theme, dim_adjuster)
        IN  /\ result' = [kind |-> "json", theme |-> theme, out |-> s.bar]
            /\ dim_adjuster' = s.cell
            /\ adjuster_ref' = RefAfter(adjuster_ref, dim_adjuster, s.cell, theme)
            /\ UNCHANGED <<items, flt_vars, cpu_vars, nic_vars>>

to_value ==
    \E theme \in Themes :
        LET s == Serialize(items, theme, dim_adjuster)
        IN  /\ result' = [kind |-> "value", theme |-> theme, out |-> s.bar]
            /\ dim_adjuster' = s.cell
            /\ adjuster_ref' = RefAfter(adjuster_ref, dim_adjuster, s.cell, theme)
            /\ UNCHANGED <<items, flt_vars, cpu_vars, nic_vars>>

\* =========================================================== InterfaceFilter
MaxNameLen == 3

NameChars == {"e", ":", "v", "4"}

RECURSIVE StringsUpTo(_)
StringsUpTo(n) ==
    IF n = 0 THEN {<<>>}
    ELSE LET S == StringsUpTo(n - 1)
         IN  S \cup {Append(t, c) : t \in {u \in S : Len(u) = n - 1}, c \in NameChars}

Ok(v) == <<"ok", v>>
Err == <<"err">>
IsOk(r) == r[1] = "ok"

InterfaceKinds == {"V4", "V6"}

InterfaceKind_to_string(k) == IF k = "V4" THEN <<"v", "4">> ELSE <<"v", "6">>

InterfaceKind_from_str(s) ==
    IF s = <<"v", "4">> THEN Ok("V4")
    ELSE IF s = <<"v", "6">> THEN Ok("V6")
    ELSE Err

InterfaceFilter_new(name, kind) == [name |-> name, kind |-> kind]

\* the two parts written in the wrong order
InterfaceFilter_to_string_swapped(f) ==
    IF f.kind # None
    THEN InterfaceKind_to_string(Unwrap(f.kind)) \o <<":">> \o f.name
    ELSE f.name

InterfaceFilter_to_string(f) ==
    IF f.kind # None
    THEN f.name \o <<":">> \o InterfaceKind_to_string(Unwrap(f.kind))
    ELSE f.name

str_contains(s, d) == \E i \in 1..Len(s) : s[i] = d

\* str::split_once: around the first occurrence of d
split_once(s, d) ==
    LET i == CHOOSE i \in 1..Len(s) : s[i] = d /\ \A j \in 1..(i - 1) : s[j] # d
    IN  <<SubSeq(s, 1, i - 1), SubSeq(s, i + 1, Len(s))>>

InterfaceFilter_from_str(s) ==
    IF ~str_contains(s, ":")
    THEN Ok(InterfaceFilter_new(s, None))
    ELSE LET p == split_once(s, ":")
             kind == InterfaceKind_from_str(p[2])
         IN  IF IsOk(kind)
             THEN Ok(InterfaceFilter_new(p[1], Some(kind[2])))
             ELSE Err

\* a JSON string value
JsonString(s) == [json_string |-> s]

InterfaceFilter_serialize(f) == JsonString(InterfaceFilter_to_string(f))

InterfaceFilter_deserialize(v) == InterfaceFilter_from_str(v.json_string)

InterfaceFilter_matches(f, interface) ==
    LET name_match == IF f.name = <<>> THEN TRUE ELSE f.name = interface.name
    IN  IF f.kind = None THEN name_match
        ELSE name_match /\ Unwrap(f.kind) = interface.kind

Filters ==
    {InterfaceFilter_new(n, k) :
        n \in StringsUpTo(MaxNameLen), k \in {None} \cup {Some(x) : x \in InterfaceKinds}}

FltIdle ==
    /\ flt_text = None
    /\ flt_parsed = None
    /\ flt_json = None
    /\ flt_de = None

FilterToString ==
    /\ flt_text = None
    /\ flt_text' = Some(InterfaceFilter_to_string(flt))
    /\ UNCHANGED <<flt, flt_parsed, flt_json, flt_de, bar_vars, cpu_vars, nic_vars>>

FilterFromStr ==
    /\ flt_text # None
    /\ flt_parsed = None
    /\ flt_parsed' = Some(InterfaceFilter_from_str(Unwrap(flt_text)))
    /\ UNCHANGED <<flt, flt_text, flt_json, flt_de, bar_vars, cpu_vars, nic_vars>>

FilterSerialize ==
    /\ flt_json = None
    /\ flt_json' = Some(InterfaceFilter_serialize(flt))
    /\ UNCHANGED <<flt, flt_text, flt_parsed, flt_de, bar_vars, cpu_vars, nic_vars>>

FilterDeserialize ==
    /\ flt_json # None
    /\ flt_de = None
    /\ flt_de' = Some(InterfaceFilter_deserialize(Unwrap(flt_json)))
    /\ UNCHANGED <<flt, flt_text, flt_parsed, flt_json, bar_vars, cpu_vars, nic_vars>>

\* ============================================================ the item loops
MaxExecs == 2
MaxIfaces == 2

UpdateResults == {"ok", "err"}

Events == {"click_left", "click_middle", "click_right", "scroll_up", "scroll_down"}
IsClick(e) == e \in {"click_left", "click_middle", "click_right"}

\* the `?` operator that ignores the error
QuestionMarkIgnored(r, next) == next

\* the `?` operator on a Result: an Err returns from the function
QuestionMark(r, next) == IF r = "err" THEN "returned" ELSE next

ReturnOf(pc) == IF pc = "returned" THEN Some("err") ELSE None

\* Context::paginate
paginate(e, len, idx) ==
    IF e \in {"click_left", "scroll_down"} THEN (idx + 1) % len
    ELSE IF e \in {"click_right", "scroll_up"} THEN (IF idx = 0 THEN len - 1 ELSE idx - 1)
    ELSE idx

\* ----------------------------------------------------------------------- Cpu
CpuPcts == {10, 45, 65, 90, 250}

Cpu_get_color(pct) ==
    IF pct >= 80 /\ pct <= 100 THEN Some("red")
    ELSE IF pct >= 60 /\ pct <= 79 THEN Some("orange")
    ELSE IF pct >= 40 /\ pct <= 59 THEN Some("yellow")
    ELSE None

CpuItem(pct) == [pct |-> pct, color |-> Cpu_get_color(pct), markup |-> "pango"]

CpuInit ==
    /\ cpu_pc = "loop"
    /\ cpu_item = None
    /\ cpu_update_err = FALSE
    /\ cpu_ret = None
    /\ cpu_execs = 0

\* lines 42-57: refresh, build the item, update_item(item).await?
CpuIterate ==
    /\ cpu_pc = "loop"
    /\ \E pct \in CpuPcts, r \in UpdateResults :
          /\ cpu_item' = IF r = "ok" THEN Some(CpuItem(pct)) ELSE cpu_item
          /\ cpu_update_err' = (r = "err")
          /\ cpu_pc' = QuestionMark(r, "delay")
          /\ cpu_ret' = ReturnOf(cpu_pc')
    /\ UNCHANGED <<cpu_execs, bar_vars, flt_vars, nic_vars>>

\* lines 58-62: an event during the delay runs the handler
CpuHandleEvent ==
    /\ cpu_pc = "delay"
    /\ \E e \in Events :
          IF IsClick(e)
          THEN cpu_execs < MaxExecs /\ cpu_execs' = cpu_execs + 1
          ELSE cpu_execs' = cpu_execs
    /\ UNCHANGED <<cpu_pc, cpu_item, cpu_update_err, cpu_ret, bar_vars, flt_vars, nic_vars>>

\* line 63: the delay elapses, the loop goes round
CpuDelayElapsed ==
    /\ cpu_pc = "delay"
    /\ cpu_pc' = "loop"
    /\ UNCHANGED <<cpu_item, cpu_update_err, cpu_ret, cpu_execs, bar_vars, flt_vars, nic_vars>>

CpuStep == CpuIterate \/ CpuHandleEvent \/ CpuDelayElapsed

\* ----------------------------------------------------------------------- Nic
Iface(name, kind) == [name |-> name, kind |-> kind]

AllIfaces == {Iface(<<"e">>, "V4"), Iface(<<"e">>, "V6"), Iface(<<"w">>, "V4")}

\* what Interface::get_interfaces may return: distinct interfaces in any order
IfaceLists ==
    UNION {{s \in [1..n -> AllIfaces] : \A a, b \in 1..n : a # b => s[a] # s[b]} :
              n \in 0..MaxIfaces}

NicFilterConfigs ==
    {<<>>,
     <<InterfaceFilter_new(<<"e">>, None)>>,
     <<InterfaceFilter_new(<<>>, Some("V6"))>>}

NicConfigs ==
    {[interval |-> iv, filter |-> f] : iv \in {None, Some("interval")}, f \in NicFilterConfigs}

\* lines 157-163
NicKeeps(filter, i) ==
    IF filter = <<>> THEN TRUE
    ELSE \E k \in 1..Len(filter) : InterfaceFilter_matches(filter[k], i)

RECURSIVE FilterSeq(_, _)
FilterSeq(s, filter) ==
    IF s = <<>> THEN <<>>
    ELSE IF NicKeeps(filter, Head(s)) THEN <<Head(s)>> \o FilterSeq(Tail(s), filter)
    ELSE FilterSeq(Tail(s), filter)

AllEnabled == [ev |-> TRUE, nm |-> TRUE]

NicInit ==
    /\ nic_pc = "init"
    /\ nic_idx = 0
    /\ interfaces = <<>>
    /\ nic_item = None
    /\ nic_update_err = FALSE
    /\ nic_ret = None
    /\ nic_branches = AllEnabled
    /\ nm_ended = FALSE

\* lines 149-153
NicConnect ==
    /\ nic_pc = "init"
    /\ \E r \in {"ok", "err"} :
          /\ nic_pc' = QuestionMark(r, "loop")
          /\ nic_ret' = ReturnOf(nic_pc')
    /\ UNCHANGED <<nic_cfg, nic_idx, interfaces, nic_item, nic_update_err, nic_branches,
                   nm_ended, bar_vars, flt_vars, cpu_vars>>

\* lines 155-186: one pass from the head of the loop up to its select!
NicIterate ==
    /\ nic_pc = "loop"
    /\ \E got \in {"ok", "err"}, all \in IfaceLists, r \in UpdateResults :
          IF got = "err"
          THEN /\ nic_pc' = QuestionMark(got, "loop")
               /\ nic_ret' = ReturnOf(nic_pc')
               /\ UNCHANGED <<nic_idx, interfaces, nic_item, nic_update_err, nic_branches>>
          ELSE LET kept == FilterSeq(all, nic_cfg.filter)
                   len == Len(kept)
               IN  /\ interfaces' = kept
                   /\ nic_update_err' = (r = "err")
                   /\ nic_branches' = AllEnabled
                   /\ IF len = 0
                      THEN /\ nic_item' = IF r = "ok"
                                          THEN Some([text |-> "disconnected", color |-> "red"])
                                          ELSE nic_item
                           /\ nic_pc' = QuestionMark(r, "select_disconnected")
                           /\ nic_idx' = IF nic_pc' = "returned" THEN nic_idx ELSE 0
                      ELSE /\ nic_idx' = nic_idx % len
                           /\ nic_item' = IF r = "ok"
                                          THEN Some([text |-> kept[nic_idx' + 1],
                                                     fraction |-> <<nic_idx' + 1, len>>])
                                          ELSE nic_item
                           /\ nic_pc' = QuestionMark(r, "select_connected")
                   /\ nic_ret' = ReturnOf(nic_pc')
    /\ UNCHANGED <<nic_cfg, nm_ended, bar_vars, flt_vars, cpu_vars>>

\* a select! whose branches are all disabled and that has no else branch panics
SelectPc(pc, branches) ==
    IF ~branches.ev /\ ~branches.nm THEN "panicked" ELSE pc

\* line 173: wait_for_event returns Some(event), the pattern matches
NicDisconnectedEvent ==
    /\ nic_pc = "select_disconnected"
    /\ nic_branches.ev
    /\ nic_pc' = "loop"
    /\ UNCHANGED <<nic_cfg, nic_idx, interfaces, nic_item, nic_update_err, nic_ret,
                   nic_branches, nm_ended, bar_vars, flt_vars, cpu_vars>>

\* line 173: wait_for_event(Some(interval)) times out and returns None, which
\* `Some(_)` does not match: the branch is disabled
NicDisconnectedTimeout ==
    /\ nic_pc = "select_disconnected"
    /\ nic_branches.ev
    /\ nic_cfg.interval # None
    /\ nic_branches' = [nic_branches EXCEPT !.ev = FALSE]
    /\ nic_pc' = SelectPc(nic_pc, nic_branches')
    /\ UNCHANGED <<nic_cfg, nic_idx, interfaces, nic_item, nic_update_err, nic_ret,
                   nm_ended, bar_vars, flt_vars, cpu_vars>>

\* lines 174 and 208: the stream yields a state change
NicStateChanged ==
    /\ nic_pc \in {"select_disconnected", "select_connected"}
    /\ nic_branches.nm
    /\ ~nm_ended
    /\ nic_pc' = "loop"
    /\ UNCHANGED <<nic_cfg, nic_idx, interfaces, nic_item, nic_update_err, nic_ret,
                   nic_branches, nm_ended, bar_vars, flt_vars, cpu_vars>>

\* lines 174 and 208: the stream yields None; in the connected select the
\* wait_for_click branch matches `()` and is never disabled
NicStreamEnded ==
    /\ nic_pc \in {"select_disconnected", "select_connected"}
    /\ nic_branches.nm
    /\ nm_ended' = TRUE
    /\ nic_branches' = [nic_branches EXCEPT !.nm = FALSE]
    /\ nic_pc' = IF nic_pc = "select_disconnected"
                 THEN SelectPc(nic_pc, nic_branches')
                 ELSE nic_pc
    /\ UNCHANGED <<nic_cfg, nic_idx, interfaces, nic_item, nic_update_err, nic_ret,
                   bar_vars, flt_vars, cpu_vars>>

\* lines 189-204: an event while waiting for a click; with an interval the
\* handler paginates and the delay goes on, without one the wait completes
NicConnectedEvent ==
    /\ nic_pc = "select_connected"
    /\ \E e \in Events : nic_idx' = paginate(e, Len(interfaces), nic_idx)
    /\ nic_pc' = IF nic_cfg.interval # None THEN "select_connected" ELSE "loop"
    /\ UNCHANGED <<nic_cfg, interfaces, nic_item, nic_update_err, nic_ret,
                   nic_branches, nm_ended, bar_vars, flt_vars, cpu_vars>>

\* lines 191-197 and 207: the delay elapses
NicDelayElapsed ==
    /\ nic_pc = "select_connected"
    /\ nic_cfg.interval # None
    /\ nic_pc' = "loop"
    /\ UNCHANGED <<nic_cfg, nic_idx, interfaces, nic_item, nic_update_err, nic_ret,
                   nic_branches, nm_ended, bar_vars, flt_vars, cpu_vars>>

NicStep ==
    \/ NicConnect
    \/ NicIterate
    \/ NicDisconnectedEvent
    \/ NicDisconnectedTimeout
    \/ NicStateChanged
    \/ NicStreamEnded
    \/ NicConnectedEvent
    \/ NicDelayElapsed

\* ============================================================ specifications
DefaultNicConfig == [interval |-> None, filter |-> <<>>]

\* the bar: items are updated and the bar is serialized
Init ==
    /\ BarInit
    /\ flt = InterfaceFilter_new(<<>>, None) /\ FltIdle
    /\ CpuInit
    /\ nic_cfg = DefaultNicConfig /\ NicInit

Next == UpdateItem \/ to_json \/ to_value

Spec == Init /\ [][Next]_vars

\* InterfaceFilter: any filter is written and parsed, serialized and deserialized
InitFilter ==
    /\ BarInit
    /\ flt \in Filters /\ FltIdle
    /\ CpuInit
    /\ nic_cfg = DefaultNicConfig /\ NicInit

NextFilter == FilterToString \/ FilterFromStr \/ FilterSerialize \/ FilterDeserialize

SpecFilter == InitFilter /\ [][NextFilter]_vars

\* the Cpu and Nic item tasks, each under any Nic configuration
InitTasks ==
    /\ BarInit
    /\ flt = InterfaceFilter_new(<<>>, None) /\ FltIdle
    /\ CpuInit
    /\ nic_cfg \in NicConfigs /\ NicInit

NextTasks ==
    \/ CpuIterate
    \/ CpuHandleEvent
    \/ CpuDelayElapsed
    \/ NicConnect
    \/ NicIterate
    \/ NicDisconnectedEvent
    \/ NicDisconnectedTimeout
    \/ NicStateChanged
    \/ NicStreamEnded
    \/ NicConnectedEvent
    \/ NicDelayElapsed

SpecTasks == InitTasks /\ [][NextTasks]_vars

\* ---------------------------------------------------- reading a result
Rendered == result.kind # "none"
PowerlineRendered == Rendered /\ result.theme.powerline_enable
RawRendered == Rendered /\ ~result.theme.powerline_enable

VisibleSlots == {i \in DOMAIN items : items[i].full_text # <<>>}
NumVisible == Cardinality(VisibleSlots)

\* the slot of the k-th visible item, k = 1 for the leftmost
NthVisible(k) ==
    CHOOSE i \in VisibleSlots : Cardinality({j \in VisibleSlots : j < i}) = k - 1

\* create_powerline pushes (separator, content) per visible item
SepOf(k) == result.out[2 * k - 1]
ContentOf(k) == result.out[2 * k]

WasUrgent(i) == items[i].urgent = Some(TRUE)

Min(a, b) == IF a <= b THEN a ELSE b
AbsDelta(a, b) == IF a >= b THEN a - b ELSE b - a
Channels == {"r", "g", "b"}

\* ------------------------------------------------------------------ claims

\* C1 (as claimed): in powerline mode the separator of every visible item
\* but the first has the computed background of the previous VISIBLE item
\* (the background its content item is rendered with), empty slots between
\* them or not.
C1_SepMeshesWithPrevVisible ==
    PowerlineRendered =>
        \A k \in 2..NumVisible :
            SepOf(k).background_color = ContentOf(k - 1).background_color

\* C2 (as claimed): in powerline mode the separator of the first visible item
\* has no background colour, wherever that item's slot is.
C2_FirstSepNoBackground ==
    (PowerlineRendered /\ NumVisible >= 1) => SepOf(1).background_color = None

\* C3 (as claimed): every powerline content item has urgent = false and its
\* extra-data "urgent" is true exactly when the slot's item was urgent.
C3_UrgentPreserved ==
    PowerlineRendered =>
        \A k \in 1..NumVisible :
            /\ ContentOf(k).urgent = Some(FALSE)
            /\ (ContentOf(k).extra.urgent = Some(TRUE)) <=> WasUrgent(NthVisible(k))

\* saturating_add(bg, |fg - ref|) on one channel, written out
AdjustedChannel(bg, fg, ref, c) == Min(U8Max, bg[c] + AbsDelta(fg[c], ref[c]))

\* C4 (as claimed): every item whose colour is theme.dim is rendered with
\* saturating_add(bg, |dim - theme.bg|) per channel, bg being the background
\* assigned to it, and that colour is never theme.dim when bg # theme.bg.
C4_DimAdjustedAsClaimed ==
    PowerlineRendered =>
        \A k \in 1..NumVisible :
            items[NthVisible(k)].color = Some(result.theme.dim) =>
                LET bg == Unwrap(ContentOf(k).background_color)
                    col == Unwrap(ContentOf(k).color)
                IN  /\ \A c \in Channels :
                           col[c] = AdjustedChannel(bg, result.theme.dim, result.theme.bg, c)
                    /\ bg # result.theme.bg => col # result.theme.dim

\* C4 (amended): every NON-URGENT item whose colour is theme.dim is rendered
\* with saturating_add(bg, |fg0 - bg0|) per channel, (bg0, fg0) being the
\* (bg, dim) pair the bar's adjuster was built from; when that pair is the
\* current theme's, the colour differs from theme.dim whenever some channel
\* has bg # theme.bg, theme.bg <= theme.dim and theme.dim below the maximum.
C4_DimAdjusted ==
    PowerlineRendered =>
        \A k \in 1..NumVisible :
            (items[NthVisible(k)].color = Some(result.theme.dim)
               /\ ~WasUrgent(NthVisible(k))) =>
                LET bg == Unwrap(ContentOf(k).background_color)
                    col == Unwrap(ContentOf(k).color)
                    ref == Unwrap(adjuster_ref)
                    th == result.theme
                IN  /\ adjuster_ref # None
                    /\ \A c \in Channels : col[c] = AdjustedChannel(bg, ref.fg, ref.bg, c)
                    /\ (/\ ref = [bg |-> th.bg, fg |-> th.dim]
                        /\ \E c \in Channels : /\ bg[c] # th.bg[c]
                                               /\ th.bg[c] <= th.dim[c]
                                               /\ th.dim[c] < U8Max)
                          => col # th.dim

\* a non-urgent dim-coloured item was rendered and one channel saturated
C4_Witness ==
    /\ PowerlineRendered
    /\ \E k \in 1..NumVisible :
          /\ items[NthVisible(k)].color = Some(result.theme.dim)
          /\ ~WasUrgent(NthVisible(k))
          /\ adjuster_ref = Some([bg |-> result.theme.bg, fg |-> result.theme.dim])
          /\ Unwrap(ContentOf(k).background_color) # result.theme.bg
          /\ \E c \in Channels :
                Unwrap(ContentOf(k).background_color)[c]
                  + AbsDelta(result.theme.dim[c], result.theme.bg[c]) > U8Max

\* the band of the j-th visible item from the right (j = 0 for the last one)
BandFromRight(theme, j) ==
    theme.powerline[((Len(theme.powerline) - (j % Len(theme.powerline)))
                        % Len(theme.powerline)) + 1]

\* C5: the band assigned to the j-th visible item from the right depends only
\* on j and the band count: the last visible item always gets the first band,
\* and going left the bands cycle backwards.  The band shows in the content
\* item's background (no own background, not urgent) and colour (no own
\* colour, not urgent).
C5_RightmostBandStable ==
    PowerlineRendered =>
        \A k \in 1..NumVisible :
            LET it == items[NthVisible(k)]
                band == BandFromRight(result.theme, NumVisible - k)
            IN  /\ (~WasUrgent(NthVisible(k)) /\ it.background_color = None)
                      => ContentOf(k).background_color = Some(band.bg)
                /\ (~WasUrgent(NthVisible(k)) /\ it.color = None)
                      => ContentOf(k).color = Some(band.fg)

\* two plain items around an empty slot, rendered with at least two bands
C5_Witness ==
    /\ PowerlineRendered
    /\ Len(result.theme.powerline) >= 2
    /\ \E a, b, c \in DOMAIN items :
          /\ a < b /\ b < c
          /\ b \notin VisibleSlots
          /\ {a, c} \subseteq VisibleSlots
          /\ items[a].urgent = None /\ items[a].background_color = None
          /\ items[c].urgent = None /\ items[c].background_color = None

\* the slots the entries of the returned sequence stand for: a powerline entry
\* names its slot in `instance`, the raw sequence is the Vec in order
EntrySlots ==
    IF result.theme.powerline_enable
    THEN {i \in DOMAIN items :
            \E e \in 1..Len(result.out) : result.out[e].instance = Some(usize_to_string(i))}
    ELSE {e - 1 : e \in 1..Len(result.out)}

\* C6 (as claimed): no serialized sequence, powerline or raw, has an entry for
\* an empty slot (so a new bar serializes to the empty list in both modes).
C6_EmptyNeverSerialized ==
    Rendered => EntrySlots \subseteq VisibleSlots

\* C6 (amended): in powerline mode the sequence holds exactly a separator and
\* a content item for every non-empty slot, in slot order, and nothing for an
\* empty slot; in raw mode it holds every slot's item as it is, empty ones
\* included.
C6_EmptySkippedInPowerline ==
    /\ PowerlineRendered =>
          /\ Len(result.out) = 2 * NumVisible
          /\ \A k \in 1..NumVisible :
                /\ SepOf(k).instance = items[NthVisible(k)].instance
                /\ ContentOf(k).instance = items[NthVisible(k)].instance
    /\ RawRendered =>
          /\ Len(result.out) = Cardinality(DOMAIN items)
          /\ \A i \in DOMAIN items : result.out[i + 1] = items[i]

\* a powerline rendering of a bar with an empty slot left of a visible one
C6_Witness ==
    /\ PowerlineRendered
    /\ \E i, j \in DOMAIN items : i < j /\ i \notin VisibleSlots /\ j \in VisibleSlots

\* C9 (as claimed): what a serialization call returns is determined by the
\* current items and the theme of that call alone: it is what the same call
\* returns on a bar that was never serialized before.
C9_PureRendering ==
    Rendered => result.out = Serialize(items, result.theme, None).bar
\* C7 (as claimed): for every filter, whatever its name, parsing its
\* to_string() gives back the filter, and so does deserializing its
\* serialized form.
C7_RoundTripAnyName ==
    /\ flt_parsed # None => Unwrap(flt_parsed) = Ok(flt)
    /\ flt_de # None => Unwrap(flt_de) = Ok(flt)

NameHasColon == \E i \in 1..Len(flt.name) : flt.name[i] = ":"

\* C7 (amended): for every filter whose name contains no ':', parsing its
\* to_string() gives back the filter, and so does deserializing its
\* serialized form.
C7_RoundTrip ==
    ~NameHasColon =>
        /\ flt_parsed # None => Unwrap(flt_parsed) = Ok(flt)
        /\ flt_de # None => Unwrap(flt_de) = Ok(flt)

\* a filter with a name and a kind went through both round trips
C7_Witness ==
    /\ ~NameHasColon
    /\ flt.name # <<>>
    /\ flt.kind # None
    /\ flt_parsed # None
    /\ flt_de # None

\* C8: once update_item has returned an error to Cpu or to Nic, that task has
\* returned the error from start() and takes no further step: it publishes
\* nothing, waits for nothing and runs no event handler.
C8_UpdateErrorIsFatal ==
    /\ [](cpu_update_err => (cpu_pc = "returned" /\ cpu_ret = Some("err")))
    /\ [](nic_update_err => (nic_pc = "returned" /\ nic_ret = Some("err")))
    /\ [][(cpu_update_err => (UNCHANGED cpu_vars /\ ~CpuStep))
            /\ (nic_update_err => (UNCHANGED nic_vars /\ ~NicStep))]_vars

\* both tasks published at least once and then had update_item fail
C8_Witness ==
    /\ cpu_update_err /\ cpu_item # None
    /\ nic_update_err /\ nic_item # None

\* C10 (as claimed): in the disconnected state with an interval, a timeout of
\* wait_for_event takes the loop to its next iteration, and the select never
\* has all of its branches disabled.
C10_RepollsOnTimeout ==
    /\ [][NicDisconnectedTimeout => nic_pc' = "loop"]_vars
    /\ [](nic_pc # "panicked")
====
